---- MODULE Spec2Model ----
(***************************************************************************)
(* AuthorizedHumbleAPI (src/src/webservice.py): the authenticated client   *)
(* of the Humble Bundle web API.  The model follows one client instance.   *)
(* Every HTTP exchange is an input: the reply of the remote service is     *)
(* drawn from a small set, and the histories (requests issued, replies     *)
(* received, items yielded, errors logged) are kept so that the            *)
(* properties can speak about them.                                        *)
(***************************************************************************)
EXTENDS Integers, Sequences, FiniteSets, TLC

----------------------------------------------------------------------------
(* Bounds of the model *)

\* requests one generator instance may issue before the model stops it
MaxRequests == 3
\* entries in one page (products, previous_months, trove chunk, order list)
MaxPageLen == 2
\* tokens in a scraped page text
MaxTextLen == 4
\* largest from_chunk a caller passes to get_trove_details
MaxFromChunk == 1
\* tokens in the value of the cookie passed to authenticate
MaxCookieLen == 2
\* requests of one call when two calls share the client
MaxSharedRequests == 3

----------------------------------------------------------------------------
(* Python values *)

None == [t |-> "None"]
Str(s) == [t |-> "str", s |-> s]

\* JSON values, tagged with their Python type after decoding
Obj(id) == [t |-> "dict", id |-> id]
Arr(elems) == [t |-> "list", elems |-> elems]
NotJson == [t |-> "notjson"]

\* d[key] raises KeyError when the dict d holds no such key
HasKey(d, key) == key \in DOMAIN d

SeqsUpTo(S, n) == UNION {[1..k -> S] : k \in 0..n}

RECURSIVE Flatten(_)
Flatten(ss) == IF ss = <<>> THEN <<>> ELSE Head(ss) \o Flatten(Tail(ss))

----------------------------------------------------------------------------
(* Exceptions *)

Exc(type) == [type |-> type, status |-> 0]
NoExc == Exc("none")
ClientResponseError(status) == [type |-> "ClientResponseError", status |-> status]
ClientConnectionError == Exc("ClientConnectionError")
ContentTypeError == Exc("ContentTypeError")
AttributeError == Exc("AttributeError")
KeyError == Exc("KeyError")
RuntimeError == Exc("RuntimeError")
UnknownBackendResponse == Exc("UnknownBackendResponse")

\* the errors of galaxy.api.errors that galaxy.http.handle_exception raises
BackendFailures ==
    {"AuthenticationRequired", "AccessDenied", "BackendNotAvailable", "TooManyRequests",
     "BackendError", "UnknownError", "NetworkError", "BackendTimeout"}

----------------------------------------------------------------------------
(* Class constants *)

_AUTHORITY == "https://www.humblebundle.com/"
_ORDER_LIST_URL == "api/v1/user/order"
_ORDER_URL == "/api/v1/order/{}"
_SUBSCRIPTION_HOME == "subscription/home"
_SUBSCRIPTION_TROVE == "subscription/trove"
_SUBSCRIPTION_PRODUCTS == "api/v1/subscriptions/humble_monthly/subscription_products_with_gamekeys"
_SUBSCRIPTION_HISTORY == "api/v1/subscriptions/humble_monthly/history?from_product={}"
_TROVE_CHUNK_URL == "api/v1/trove/chunk?property=popularity&direction=desc&index={}"
_DOWNLOAD_SIGN == "api/v1/user/download/sign"
_HUMBLER_REDEEM_DOWNLOAD == "humbler/redeemdownload"

----------------------------------------------------------------------------
(* The remote service *)

Statuses == {200, 401, 404, 500}

\* a reply of the remote service: an HTTP response, or none (the connection failed)
Response(status, body) == [t |-> "response", status |-> status, body |-> body]
ConnectionFailed == [t |-> "connection failed"]

RepliesWith(bodies) == {ConnectionFailed} \cup {Response(s, b) : s \in Statuses, b \in bodies}

\* a request as the session sees it: url is _AUTHORITY + path with the path's
\* placeholder filled by arg
Request(method, path, arg) == [method |-> method, url |-> <<_AUTHORITY, path>>, arg |-> arg]

----------------------------------------------------------------------------
(* The session and the error wrapper *)

\* self._session.request: the exception it raises for a reply.  The session
\* of galaxy.http.create_client_session raises for a status >= 400 unless the
\* request passes raise_for_status=False.
session_request(reply, raise_for_status) ==
    IF reply = ConnectionFailed THEN ClientConnectionError
    ELSE IF raise_for_status /\ reply.status >= 400 THEN ClientResponseError(reply.status)
    ELSE NoExc

\* galaxy.http.handle_exception: turns the errors of aiohttp into galaxy.api.errors
galaxy_http_handle_exception(e) ==
    IF e = NoExc THEN NoExc
    ELSE IF e.type = "ClientConnectionError" THEN Exc("NetworkError")
    ELSE IF e.type = "ContentTypeError" THEN UnknownBackendResponse
    ELSE IF e.type = "ClientResponseError" THEN
        (IF e.status = 401 THEN Exc("AuthenticationRequired")
         ELSE IF e.status >= 500 THEN Exc("BackendError")
         ELSE Exc("UnknownError"))
    ELSE e

\* the except clause of handle_exception: what leaves it for an exception e
\* raised by the wrapped block (logger.error(e), and no raise follows)
handle_exception_except(e) == NoExc

\* handle_exception: what the with block raises and logs when its body raises e
handle_exception(e) ==
    [raised |-> galaxy_http_handle_exception(IF e = NoExc THEN NoExc ELSE handle_exception_except(e)),
     logged |-> IF e = NoExc THEN <<>> ELSE <<e>>]

\* a slip: a failed call of the session is made once more
_request_retried(req, reply) ==
    IF reply = ConnectionFailed \/ reply.status >= 400 THEN <<req, req>> ELSE <<req>>

\* the calls of the session that one _request makes for the request req,
\* whatever the reply: the single await of self._session.request
_request_calls(req, reply) == <<req>>

\* _request: the value it returns (None when the with block is left without
\* reaching the return), what it raises and what it logs
_request(reply, raise_for_status) ==
    LET e == session_request(reply, raise_for_status)
        h == handle_exception(e)
    IN  [value |-> IF e = NoExc THEN reply ELSE None, raised |-> h.raised, logged |-> h.logged]

\* await res.json()
json(res) ==
    IF res = None THEN [raised |-> AttributeError, value |-> None]
    ELSE IF res.body.t = "notjson" THEN [raised |-> ContentTypeError, value |-> None]
    ELSE [raised |-> NoExc, value |-> res.body]

\* the outcome of a call
Returned(v) == [kind |-> "returned", val |-> v, exc |-> NoExc]
Raised(e) == [kind |-> "raised", val |-> None, exc |-> e]
Pending == [kind |-> "pending", val |-> None, exc |-> NoExc]

----------------------------------------------------------------------------
VARIABLES
    op,            \* the method called last
    args,          \* its arguments
    pc,            \* idle, done, or where a generator stands: created, fetch, yielded
    requests,      \* the requests the call has issued, in order
    replies,       \* the replies it has received, in order
    logged,        \* what it has passed to logger.error, in order
    outcome,       \* what it returned or raised
    yielded,       \* what a generator has yielded, in order
    cursor,        \* get_subscription_products_with_gamekeys: cursor
    from_product,  \* get_previous_subscription_months: from_product
    index,         \* get_trove_details: index
    page,          \* the decoded body a generator iterates (res_json, data)
    pos,           \* how many entries of page the for loop has yielded
    asks,          \* how many times the consumer has asked a generator for its next item
    cookie_jar,    \* self._session.cookie_jar: the value of each cookie by its name
    backend,       \* the replies of a backend that answers a request always the same
    other          \* a second call on the client, suspended while this one runs

\* what the client keeps between calls and shares among them
shared == <<cookie_jar, backend, other>>

vars == <<op, args, pc, requests, replies, logged, outcome, yielded,
          cursor, from_product, index, page, pos, asks, cookie_jar, backend, other>>

NoArgs == [none |-> TRUE]
NoPage == [t |-> "none"]

\* a call that has not started, with the locals of its frame
NoCall ==
    [op |-> "__init__", args |-> NoArgs, pc |-> "idle", requests |-> <<>>,
     replies |-> <<>>, logged |-> <<>>, outcome |-> Pending, yielded |-> <<>>,
     cursor |-> "", from_product |-> "", index |-> 0, page |-> NoPage, pos |-> 0,
     asks |-> 0]

\* aiohttp.CookieJar() of a new session
EmptyJar == <<>>

\* no request has been answered yet
NoReplies == <<>>

Init ==
    /\ op = "__init__"
    /\ args = NoArgs
    /\ pc = "idle"
    /\ requests = <<>>
    /\ replies = <<>>
    /\ logged = <<>>
    /\ outcome = Pending
    /\ yielded = <<>>
    /\ cursor = ""
    /\ from_product = ""
    /\ index = 0
    /\ page = NoPage
    /\ pos = 0
    /\ asks = 0
    /\ cookie_jar = EmptyJar
    /\ backend = NoReplies
    /\ other = NoCall

\* the client holds no state between calls: a call starts when the one before
\* it has been collected
CanCall == pc = "idle"

\* a call that is no generator: it runs to its end in one step
Call(name, a, reqs, reps, result) ==
    /\ op' = name
    /\ args' = a
    /\ pc' = "done"
    /\ requests' = reqs
    /\ replies' = reps
    /\ logged' = result.logged
    /\ outcome' = IF result.raised = NoExc THEN Returned(result.value) ELSE Raised(result.raised)
    /\ UNCHANGED <<yielded, cursor, from_product, index, page, pos, asks, shared>>

\* the caller takes the outcome of a finished call, or drops a generator that
\* is suspended at a yield or was never advanced; nothing of the call is kept
Collect ==
    /\ pc \in {"done", "yielded", "created"}
    /\ op' = "__init__"
    /\ args' = NoArgs
    /\ pc' = "idle"
    /\ requests' = <<>>
    /\ replies' = <<>>
    /\ logged' = <<>>
    /\ outcome' = Pending
    /\ yielded' = <<>>
    /\ cursor' = ""
    /\ from_product' = ""
    /\ index' = 0
    /\ page' = NoPage
    /\ pos' = 0
    /\ asks' = 0
    /\ UNCHANGED shared

----------------------------------------------------------------------------
(* Session manager *)

\* _is_session_valid for the reply to the order-list probe
_is_session_valid(reply) ==
    LET e == session_request(reply, TRUE)
    IN  IF e.type = "ClientResponseError" /\ e.status = 401
        THEN [raised |-> NoExc, value |-> FALSE, logged |-> <<>>]
        ELSE LET h == handle_exception(e)
             IN  [raised |-> h.raised, value |-> TRUE, logged |-> h.logged]

ProbeReplies == RepliesWith({NotJson, Arr(<<>>)})

IsSessionValid ==
    /\ CanCall
    /\ \E reply \in ProbeReplies :
            Call("_is_session_valid", NoArgs,
                 <<Request("get", _ORDER_LIST_URL, "")>>, <<reply>>,
                 _is_session_valid(reply))

----------------------------------------------------------------------------
(* Authentication *)

AuthCookieName == "_simpleauth_sess"

\* the value of an auth cookie is a sequence of tokens: a double quote, the
\* escape of the equals sign, the bar between the parts of the cookie, and
\* base64 texts
Quote == "\""
Escaped075 == "\\075"
Equals == "="
Bar == "|"
\* base64 of {"user_id":7}, of {}, and of the text no (each with white space
\* up to a multiple of three bytes), and one character, which is no valid
\* base64 text whatever padding follows
UserB64 == "eyJ1c2VyX2lkIjo3fSAg"
EmptyB64 == "e30gICAg"
TextB64 == "bm8g"
BadB64 == "A"
CookieTokens == {Quote, Escaped075, Bar, UserB64, EmptyB64, TextB64, BadB64}

Count(s, c) == Cardinality({i \in 1..Len(s) : s[i] = c})

CookieValues == {v \in SeqsUpTo(CookieTokens, MaxCookieLen) : Count(v, BadB64) <= 1}
AuthCookies == {[name |-> AuthCookieName, value |-> v] : v \in CookieValues}

\* bytes(value, "utf-8").decode("unicode_escape")
unicode_escape(value) ==
    [i \in 1..Len(value) |-> IF value[i] = Escaped075 THEN Equals ELSE value[i]]

\* str.replace(old, '')
remove(s, old) == SelectSeq(s, LAMBDA c : c # old)

\* s.split(sep)[0]
first_part(s, sep) ==
    LET hits == {i \in 1..Len(s) : s[i] = sep}
    IN  IF hits = {} THEN s
        ELSE SubSeq(s, 1, (CHOOSE i \in hits : \A j \in hits : i <= j) - 1)

BinasciiError == Exc("binascii.Error")
JSONDecodeError == Exc("JSONDecodeError")

\* base64.b64decode: the texts the base64 texts of info stand for, the
\* padding left aside
b64decode(info) ==
    LET data == remove(info, Equals)
    IN  IF Count(data, BadB64) > 0 THEN [raised |-> BinasciiError, value |-> <<>>]
        ELSE [raised |-> NoExc, value |-> data]

\* json.loads of decoded base64 texts: one JSON value and nothing else
json_loads(decoded) ==
    IF decoded = <<UserB64>>
    THEN [raised |-> NoExc, value |-> [t |-> "dict", user_id |-> [t |-> "int", literal |-> <<"7">>]]]
    ELSE IF decoded = <<EmptyB64>> THEN [raised |-> NoExc, value |-> [t |-> "dict"]]
    ELSE [raised |-> JSONDecodeError, value |-> None]

_decode_user_id(_simpleauth_sess) ==
    LET info == first_part(_simpleauth_sess, Bar) \o <<Equals, Equals>>
        bytes == b64decode(info)
        decoded == json_loads(bytes.value)
    IN  IF bytes.raised # NoExc THEN [raised |-> bytes.raised, value |-> None]
        ELSE IF decoded.raised # NoExc THEN [raised |-> decoded.raised, value |-> None]
        ELSE IF ~HasKey(decoded.value, "user_id") THEN [raised |-> KeyError, value |-> None]
        ELSE [raised |-> NoExc, value |-> decoded.value.user_id]

\* CookieJar.update_cookies: the cookies of cookie replace those of their name
update_cookies(jar, cookie) ==
    [n \in DOMAIN jar \cup DOMAIN cookie |-> IF n \in DOMAIN cookie THEN cookie[n] ELSE jar[n]]

\* a slip: the cookie is installed only after its user id was decoded
authenticate_decode_first(jar, auth_cookie) ==
    LET cookie_val == remove(unicode_escape(auth_cookie.value), Quote)
        cookie == [n \in {auth_cookie.name} |-> cookie_val]
        user_id == _decode_user_id(cookie_val)
    IN  [raised |-> user_id.raised, value |-> user_id.value, logged |-> <<>>,
         jar |-> IF user_id.raised = NoExc THEN update_cookies(jar, cookie) ELSE jar]

\* authenticate: what it returns or raises, and the cookie jar it leaves
authenticate(jar, auth_cookie) ==
    LET cookie_val == remove(unicode_escape(auth_cookie.value), Quote)
        cookie == [n \in {auth_cookie.name} |-> cookie_val]
        user_id == _decode_user_id(cookie_val)
    IN  [raised |-> user_id.raised, value |-> user_id.value, logged |-> <<>>,
         jar |-> update_cookies(jar, cookie)]

Authenticate ==
    /\ CanCall
    /\ \E auth_cookie \in AuthCookies :
            LET r == authenticate(cookie_jar, auth_cookie)
            IN  /\ op' = "authenticate"
                /\ args' = [auth_cookie |-> auth_cookie]
                /\ pc' = "done"
                /\ requests' = <<>>
                /\ replies' = <<>>
                /\ logged' = r.logged
                /\ outcome' = IF r.raised = NoExc THEN Returned(r.value) ELSE Raised(r.raised)
                /\ cookie_jar' = r.jar
    /\ UNCHANGED <<yielded, cursor, from_product, index, page, pos, asks, backend, other>>

\* a slip: the property answers false whatever the cookie jar holds
is_authenticated_never(jar) == FALSE

\* is_authenticated: bool(self._session.cookie_jar)
is_authenticated(jar) == jar # EmptyJar

\* the property is read
IsAuthenticated ==
    /\ CanCall
    /\ Call("is_authenticated", NoArgs, <<>>, <<>>,
            [raised |-> NoExc, value |-> is_authenticated(cookie_jar), logged |-> <<>>])

----------------------------------------------------------------------------
(* Resource fetchers *)

Gamekeys == {"k1", "k2"}
Order(gamekey) == [t |-> "dict", gamekey |-> gamekey]
OrderLists == {Arr(s) : s \in SeqsUpTo({Order(k) : k \in Gamekeys}, MaxPageLen)}

\* get_gamekeys for the reply to the order-list request
get_gamekeys(reply) ==
    LET r == _request(reply, TRUE)
        parsed == json(r.value)
    IN  IF r.raised # NoExc THEN [raised |-> r.raised, value |-> None, logged |-> r.logged]
        ELSE IF parsed.raised # NoExc
        THEN [raised |-> parsed.raised, value |-> None, logged |-> r.logged]
        ELSE [raised |-> NoExc,
              value |-> [i \in 1..Len(parsed.value.elems) |-> parsed.value.elems[i].gamekey],
              logged |-> r.logged]

GetGamekeys ==
    /\ CanCall
    /\ \E reply \in RepliesWith({NotJson} \cup OrderLists) :
            Call("get_gamekeys", NoArgs,
                 _request_calls(Request("get", _ORDER_LIST_URL, ""), reply), <<reply>>,
                 get_gamekeys(reply))

\* res = await self._request(...); return await res.json()
request_json(reply) ==
    LET r == _request(reply, TRUE)
        parsed == json(r.value)
    IN  IF r.raised # NoExc THEN [raised |-> r.raised, value |-> None, logged |-> r.logged]
        ELSE [raised |-> parsed.raised, value |-> parsed.value, logged |-> r.logged]

get_order_details(reply) == request_json(reply)

OrderBodies == {NotJson} \cup {Order(k) : k \in Gamekeys}

GetOrderDetails ==
    /\ CanCall
    /\ \E gamekey \in Gamekeys, reply \in RepliesWith(OrderBodies) :
            Call("get_order_details", [gamekey |-> gamekey],
                 _request_calls(Request("get", _ORDER_URL, gamekey), reply), <<reply>>,
                 get_order_details(reply))

sign_download(reply) == request_json(reply)

SignedUrls == {[t |-> "dict", signed_url |-> u] : u \in {"u1", "u2"}}
SignBodies == {NotJson} \cup SignedUrls
MachineNames == {"m1"}
Filenames == {"", "f.zip"}

SignDownload ==
    /\ CanCall
    /\ \E machine_name \in MachineNames, filename \in Filenames, reply \in RepliesWith(SignBodies) :
            Call("sign_download", [machine_name |-> machine_name, filename |-> filename],
                 _request_calls(Request("post", _DOWNLOAD_SIGN, <<machine_name, filename>>), reply),
                 <<reply>>, sign_download(reply))

----------------------------------------------------------------------------
(* Webpack scraper *)

ScriptOpen == "<script id=\""
ScriptType == "\" type=\"application/json\">"
HubId == "webpack-subscriber-hub-data"
TroveId == "webpack-monthly-trove-data"

\* the JSON objects of the page texts: one with the subscription plan of the
\* user and one without
PlanJson == "{\"userSubscriptionPlan\": {}}"
EmptyJson == "{}"
JsonObjects == {PlanJson, EmptyJson}

\* a page text is a sequence of tokens: the pieces of the marker, white
\* space, a digit and an object (JSON text) and a character that starts no
\* JSON value
Tokens == {ScriptOpen, HubId, ScriptType, " ", "7", "x"} \cup JsonObjects
Whitespace == {" "}
Digits == {"7"}
Texts == SeqsUpTo(Tokens, MaxTextLen)
Text(txt) == [t |-> "notjson", text |-> txt]

\* f'<script id="{webpack_id}" type="application/json">'
search_marker(webpack_id) == <<ScriptOpen, webpack_id, ScriptType>>

\* str.find: the lowest index (from 0) where sub occurs in txt, -1 when it does not
find(txt, sub) ==
    LET hits == {i \in 0..(Len(txt) - Len(sub)) : SubSeq(txt, i + 1, i + Len(sub)) = sub}
    IN  IF hits = {} THEN -1 ELSE CHOOSE i \in hits : \A j \in hits : i <= j

\* txt[start:]
slice_from(txt, start) == SubSeq(txt, start + 1, Len(txt))

RECURSIVE lstrip(_)
lstrip(s) == IF s # <<>> /\ Head(s) \in Whitespace THEN lstrip(Tail(s)) ELSE s

RECURSIVE rstrip(_)
rstrip(s) ==
    IF s # <<>> /\ s[Len(s)] \in Whitespace THEN rstrip(SubSeq(s, 1, Len(s) - 1)) ELSE s

\* str.strip
strip(s) == rstrip(lstrip(s))

RECURSIVE leading_digits(_)
leading_digits(s) ==
    IF s # <<>> /\ Head(s) \in Digits THEN <<Head(s)>> \o leading_digits(Tail(s)) ELSE <<>>

\* json.loads of an object of the page texts
decode_object(text) ==
    IF text = PlanJson THEN [t |-> "dict", userSubscriptionPlan |-> [t |-> "dict"]]
    ELSE [t |-> "dict"]

\* json.JSONDecoder().raw_decode on the JSON texts of the model, the objects
\* and the number literals: the value at the start of candidate, whatever
\* follows it
raw_decode(candidate) ==
    LET literal == leading_digits(candidate)
    IN  IF candidate # <<>> /\ Head(candidate) \in JsonObjects
        THEN [raised |-> NoExc, value |-> decode_object(Head(candidate))]
        ELSE IF literal = <<>> THEN [raised |-> Exc("JSONDecodeError"), value |-> None]
        ELSE [raised |-> NoExc, value |-> [t |-> "int", literal |-> literal]]

\* the index _get_webpack_data starts to decode at
json_start_of(txt, search) == find(txt, search) + Len(search)

\* _get_webpack_data for the reply to the page request
_get_webpack_data(webpack_id, reply) ==
    LET r == _request(reply, TRUE)
    IN  IF r.raised # NoExc THEN [raised |-> r.raised, value |-> None, logged |-> r.logged]
        ELSE IF r.value = None
        THEN [raised |-> AttributeError, value |-> None, logged |-> r.logged]
        ELSE LET txt == r.value.body.text
                 search == search_marker(webpack_id)
                 json_start == json_start_of(txt, search)
                 candidate == strip(slice_from(txt, json_start))
                 decoded == raw_decode(candidate)
             IN  IF decoded.raised # NoExc
                 THEN [raised |-> UnknownBackendResponse, value |-> None, logged |-> r.logged]
                 ELSE [raised |-> NoExc, value |-> decoded.value, logged |-> r.logged]

WebpackPages == {<<_SUBSCRIPTION_HOME, HubId>>, <<_SUBSCRIPTION_TROVE, TroveId>>}

WebpackReplies ==
    {ConnectionFailed}
        \cup {Response(200, Text(txt)) : txt \in Texts}
        \cup {Response(s, Text(<<>>)) : s \in Statuses \ {200}}

GetWebpackData ==
    /\ CanCall
    /\ \E pg \in WebpackPages, reply \in WebpackReplies :
            Call("_get_webpack_data", [path |-> pg[1], webpack_id |-> pg[2]],
                 _request_calls(Request("GET", pg[1], ""), reply), <<reply>>,
                 _get_webpack_data(pg[2], reply))

(* get_subscription_plan *)

TypeError == Exc("TypeError")

\* model.subscription.UserSubscriptionPlan(data)
UserSubscriptionPlan(data) == [t |-> "UserSubscriptionPlan", data |-> data]

get_subscriber_hub_data(reply) == _get_webpack_data(HubId, reply)

Warned(e) == [type |-> e.type, status |-> e.status, note |-> "Can't fetch userSubscriptionPlan details"]

\* a slip: the except clause catches every exception
plan_except_all(e) == NoExc

\* except (UnknownBackendResponse, KeyError) as e: logger.warning(...); return None
\* what leaves the try statement for the exception e raised in it
plan_except(e) == IF e \in {UnknownBackendResponse, KeyError} THEN NoExc ELSE e

\* sub_hub_data["userSubscriptionPlan"]: what the subscript raises
subscript_plan(sub_hub_data) ==
    IF sub_hub_data.t # "dict" THEN TypeError
    ELSE IF ~HasKey(sub_hub_data, "userSubscriptionPlan") THEN KeyError
    ELSE NoExc

\* get_subscription_plan for the reply to the request of the subscription home
get_subscription_plan(reply) ==
    LET sub_hub_data == get_subscriber_hub_data(reply)
        e == IF sub_hub_data.raised # NoExc THEN sub_hub_data.raised
             ELSE subscript_plan(sub_hub_data.value)
    IN  IF e = NoExc
        THEN [raised |-> NoExc,
              value |-> UserSubscriptionPlan(sub_hub_data.value.userSubscriptionPlan),
              logged |-> sub_hub_data.logged]
        ELSE [raised |-> plan_except(e), value |-> None,
              logged |-> sub_hub_data.logged
                          \o (IF plan_except(e) = NoExc THEN <<Warned(e)>> ELSE <<>>)]

GetSubscriptionPlan ==
    /\ CanCall
    /\ \E reply \in WebpackReplies :
            Call("get_subscription_plan", NoArgs,
                 _request_calls(Request("GET", _SUBSCRIPTION_HOME, ""), reply), <<reply>>,
                 get_subscription_plan(reply))

----------------------------------------------------------------------------
(* Download workflow *)

\* a web link is its sequence of path segments; the empty string has none
Links == {<<>>, <<"f.zip">>, <<"d", "f.zip">>}
Webs == {None} \cup {Str(l) : l \in Links}

\* DownloadStructItem / TroveDownload: the fields the workflow reads
Downloads == {[web |-> w, machine_name |-> m] : w \in Webs, m \in MachineNames}

\* yarl.URL(link).parts[-1]; the parts of the empty link are ('',)
_filename_from_web_link(link) == IF link = <<>> THEN "" ELSE link[Len(link)]

Bytes(content) == [t |-> "bytes", content |-> content]
RedeemSuccess == "{'success': True}"
RedeemBodies == {Bytes(RedeemSuccess), Bytes("{'success': False}")}

\* _reedem_download for the reply to the redeem request
_reedem_download(reply) ==
    LET r == _request(reply, TRUE)
    IN  IF r.raised # NoExc THEN [raised |-> r.raised, logged |-> r.logged]
        ELSE IF r.value = None THEN [raised |-> AttributeError, logged |-> r.logged]
        ELSE IF r.value.body.content # RedeemSuccess
        THEN [raised |-> UnknownBackendResponse, logged |-> r.logged]
        ELSE [raised |-> NoExc, logged |-> r.logged]

Ignored(e) == [type |-> e.type, status |-> e.status, note |-> ". Error ignored"]

\* a slip: the except clause raises again
redeem_except_reraise(e) == e

\* except Exception as e: logger.error(repr(e) + '. Error ignored')
\* what leaves the try statement around _reedem_download
redeem_except(e) == NoExc

\* a slip: the check of the web link is left out
web_precondition_none(download) == NoExc

\* if download.web is None: raise RuntimeError
web_precondition(download) == IF download.web = None THEN RuntimeError ELSE NoExc

\* a slip: the redeem request is sent whether or not the sign call succeeded
sign_url_redeem_anyway(download, sign_arg, redeem_arg, sign_reply, redeem_reply) ==
    LET pre == web_precondition(download)
        urls == sign_download(sign_reply)
        redeem == _reedem_download(redeem_reply)
        sign_req == Request("post", _DOWNLOAD_SIGN, sign_arg)
        redeem_req == Request("post", _HUMBLER_REDEEM_DOWNLOAD, redeem_arg)
    IN  IF pre # NoExc
        THEN [raised |-> pre, value |-> None, logged |-> <<>>,
              requests |-> <<>>, replies |-> <<>>]
        ELSE [raised |-> urls.raised,
              value |-> IF urls.raised = NoExc THEN urls.value ELSE None,
              logged |-> urls.logged \o redeem.logged
                          \o (IF redeem.raised = NoExc THEN <<>>
                              ELSE <<Ignored(redeem.raised)>>),
              requests |-> <<sign_req, redeem_req>>,
              replies |-> <<sign_reply, redeem_reply>>]

\* the part sign_url_subproduct and sign_url_trove share: the precondition,
\* the sign request (sent with sign_arg) and the redeem request
sign_url(download, sign_arg, redeem_arg, sign_reply, redeem_reply) ==
    LET pre == web_precondition(download)
        urls == sign_download(sign_reply)
        redeem == _reedem_download(redeem_reply)
        sign_req == Request("post", _DOWNLOAD_SIGN, sign_arg)
        redeem_req == Request("post", _HUMBLER_REDEEM_DOWNLOAD, redeem_arg)
        after == IF redeem.raised = NoExc THEN NoExc ELSE redeem_except(redeem.raised)
    IN  IF pre # NoExc
        THEN [raised |-> pre, value |-> None, logged |-> <<>>,
              requests |-> <<>>, replies |-> <<>>]
        ELSE IF urls.raised # NoExc
        THEN [raised |-> urls.raised, value |-> None, logged |-> urls.logged,
              requests |-> <<sign_req>>, replies |-> <<sign_reply>>]
        ELSE [raised |-> after,
              value |-> IF after = NoExc THEN urls.value ELSE None,
              logged |-> urls.logged \o redeem.logged
                          \o (IF redeem.raised = NoExc \/ after # NoExc THEN <<>>
                              ELSE <<Ignored(redeem.raised)>>),
              requests |-> <<sign_req, redeem_req>>,
              replies |-> <<sign_reply, redeem_reply>>]

\* the filename sign_url_subproduct signs: the last segment of the web link
sign_url_subproduct(download, download_machine_name, sign_reply, redeem_reply) ==
    LET filename == IF download.web = None THEN "" ELSE _filename_from_web_link(download.web.s)
    IN  sign_url(download,
                 [machine_name |-> download_machine_name, filename |-> filename],
                 [download |-> download_machine_name, download_page |-> "false",
                  download_url_file |-> filename],
                 sign_reply, redeem_reply)

\* the filename sign_url_trove signs: the web link itself
sign_url_trove(download, product_machine_name, sign_reply, redeem_reply) ==
    sign_url(download,
             [machine_name |-> download.machine_name, web |-> download.web],
             [download |-> download.machine_name, download_page |-> "false",
              product |-> product_machine_name],
             sign_reply, redeem_reply)

SignReplies == RepliesWith(SignBodies)
RedeemReplies == RepliesWith(RedeemBodies)

SignUrlSubproduct ==
    /\ CanCall
    /\ \E download \in Downloads, download_machine_name \in MachineNames,
          sign_reply \in SignReplies, redeem_reply \in RedeemReplies :
            LET r == sign_url_subproduct(download, download_machine_name,
                                         sign_reply, redeem_reply)
            IN  Call("sign_url_subproduct",
                     [download |-> download, machine_name |-> download_machine_name],
                     r.requests, r.replies, r)

SignUrlTrove ==
    /\ CanCall
    /\ \E download \in Downloads, product_machine_name \in MachineNames,
          sign_reply \in SignReplies, redeem_reply \in RedeemReplies :
            LET r == sign_url_trove(download, product_machine_name,
                                    sign_reply, redeem_reply)
            IN  Call("sign_url_trove",
                     [download |-> download, machine_name |-> product_machine_name],
                     r.requests, r.replies, r)

----------------------------------------------------------------------------
(* Pagination generators *)

\* one step of a generator: where it stands after the step, what it raised
\* (in which case it has ended), what it logged and yielded, and its state
GenStep(to, raised, log, out, token, body, n) ==
    [pc |-> to, raised |-> raised, logged |-> log, yielded |-> out,
     token |-> token, page |-> body, pos |-> n]
GenRaise(e, log, token) == GenStep("done", e, log, <<>>, token, NoPage, 0)
GenReturn(log, token) == GenStep("done", NoExc, log, <<>>, token, NoPage, 0)

\* with handle_exception(): res.raise_for_status()
raise_for_status(res) ==
    handle_exception(IF res.status >= 400 THEN ClientResponseError(res.status) ELSE NoExc)

\* the replies to a request sent with raise_for_status=False: no connection,
\* 404, and a success or an error status with one of the bodies
PageReplies(bodies, error_bodies) ==
    {ConnectionFailed, Response(404, NotJson)}
        \cup {Response(200, b) : b \in bodies}
        \cup {Response(500, b) : b \in error_bodies}

ErrorDict == [t |-> "dict", errors |-> "error"]

(* A backend that does not change *)

\* the request req was answered before
Answered(req) == req.url \in DOMAIN backend /\ req.arg \in DOMAIN backend[req.url]
Answer(req) == backend[req.url][req.arg]

\* the replies an unchanged backend may give to req: the one it gave before,
\* or any of its repertoire
Served(req, repertoire) == IF Answered(req) THEN {Answer(req)} ELSE repertoire

\* the backend after it answered req with reply
Remember(req, reply) ==
    [u \in DOMAIN backend \cup {req.url} |->
        LET before == IF u \in DOMAIN backend THEN backend[u] ELSE <<>>
        IN  IF u # req.url THEN before
            ELSE [a \in DOMAIN before \cup {req.arg} |-> IF a = req.arg THEN reply ELSE before[a]]]

(* get_subscription_products_with_gamekeys *)

Items == {"a", "b"}
ProductLists == {<<>>, <<Obj("a")>>, <<Obj("b")>>, <<Obj("a"), Obj("b")>>}
Cursors == {"x", "y"}
ProductPages ==
    {[t |-> "dict", products |-> p, cursor |-> c] : p \in ProductLists, c \in Cursors}
        \cup {[t |-> "dict", products |-> p] : p \in ProductLists}
ProductReplies ==
    PageReplies(ProductPages \cup {NotJson, ErrorDict},
                {NotJson, [t |-> "dict", products |-> <<Obj("b")>>, cursor |-> "y"]})

\* a slip: the cursor of the response is never taken over
products_next_cursor_stale(res_json) ==
    IF HasKey(res_json, "cursor") THEN [raised |-> NoExc, cursor |-> ""]
    ELSE [raised |-> KeyError, cursor |-> ""]

\* a slip: res_json.get('cursor', '') in place of res_json['cursor']
products_next_cursor_get(res_json) ==
    [raised |-> NoExc, cursor |-> IF HasKey(res_json, "cursor") THEN res_json.cursor ELSE ""]

\* cursor = res_json['cursor']
products_next_cursor(res_json) ==
    IF HasKey(res_json, "cursor") THEN [raised |-> NoExc, cursor |-> res_json.cursor]
    ELSE [raised |-> KeyError, cursor |-> ""]

\* a slip: with the last product of a page the generator goes on to the
\* request of the next page
products_loop_prefetch(old_cursor, res_json, n, log) ==
    IF n + 1 = Len(res_json.products) /\ HasKey(res_json, "cursor")
    THEN GenStep("fetch", NoExc, log, <<res_json.products[n + 1]>>, res_json.cursor, NoPage, 0)
    ELSE IF n < Len(res_json.products)
    THEN GenStep("yielded", NoExc, log, <<res_json.products[n + 1]>>, old_cursor, res_json, n + 1)
    ELSE LET c == products_next_cursor(res_json)
         IN  IF c.raised # NoExc THEN GenRaise(c.raised, log, old_cursor)
             ELSE GenStep("fetch", NoExc, log, <<>>, c.cursor, NoPage, 0)

\* the for loop over res_json['products'] after n products were yielded, and
\* the assignment to cursor that follows it
products_loop(old_cursor, res_json, n, log) ==
    IF n < Len(res_json.products)
    THEN GenStep("yielded", NoExc, log, <<res_json.products[n + 1]>>, old_cursor, res_json, n + 1)
    ELSE LET c == products_next_cursor(res_json)
         IN  IF c.raised # NoExc THEN GenRaise(c.raised, log, old_cursor)
             ELSE GenStep("fetch", NoExc, log, <<>>, c.cursor, NoPage, 0)

\* the body of the while loop from the reply to its request on
products_fetch(old_cursor, reply) ==
    LET r == _request(reply, FALSE)
        res == r.value
    IN  IF r.raised # NoExc THEN GenRaise(r.raised, r.logged, old_cursor)
        ELSE IF res = None THEN GenRaise(AttributeError, r.logged, old_cursor)
        ELSE IF res.status = 404 THEN GenReturn(r.logged, old_cursor)
        ELSE LET h == raise_for_status(res)
                 res_json == json(res)
                 log == r.logged \o h.logged
             IN  IF h.raised # NoExc THEN GenRaise(h.raised, log, old_cursor)
                 ELSE IF res_json.raised # NoExc THEN GenRaise(res_json.raised, log, old_cursor)
                 ELSE IF ~HasKey(res_json.value, "products") THEN GenRaise(KeyError, log, old_cursor)
                 ELSE products_loop(old_cursor, res_json.value, 0, log)

\* a generator takes the step s
Take(s) ==
    /\ pc' = s.pc
    /\ logged' = logged \o s.logged
    /\ yielded' = yielded \o s.yielded
    /\ page' = s.page
    /\ pos' = s.pos
    /\ outcome' = IF s.raised # NoExc THEN Raised(s.raised)
                  ELSE IF s.pc = "done" THEN Returned(None)
                  ELSE Pending

\* calling a generator function runs none of its body
Create(name, a) ==
    /\ op' = name
    /\ args' = a
    /\ pc' = "created"
    /\ UNCHANGED <<requests, replies, logged, outcome, yielded, cursor, from_product,
                   index, page, pos, asks, shared>>

ProductsCreate ==
    /\ CanCall
    /\ Create("get_subscription_products_with_gamekeys", NoArgs)

\* a slip: the cursor is kept on the client, and a generator starts with
\* the cursor of the call before it
products_first_cursor_kept == other.cursor

\* cursor = ''
products_first_cursor == ""

\* the consumer asks for the next product: the body starts (cursor = ''), or
\* resumes after the yield
ProductsAdvance ==
    /\ op = "get_subscription_products_with_gamekeys"
    /\ \/ /\ pc = "created"
          /\ cursor' = products_first_cursor
          /\ pc' = "fetch"
          /\ UNCHANGED <<logged, yielded, page, pos, outcome>>
       \/ /\ pc = "yielded"
          /\ LET s == products_loop(cursor, page, pos, <<>>)
             IN  Take(s) /\ cursor' = s.token
    /\ asks' = asks + 1
    /\ UNCHANGED <<op, args, requests, replies, from_product, index, shared>>

\* the request of one page and what the body does with the reply, up to the
\* next yield, the next request or the end
ProductsRequest == Request("GET", _SUBSCRIPTION_PRODUCTS, cursor)

ProductsReceive(reply) ==
    LET s == products_fetch(cursor, reply)
    IN  /\ requests' = Append(requests, ProductsRequest)
        /\ replies' = Append(replies, reply)
        /\ Take(s)
        /\ cursor' = s.token
        /\ UNCHANGED <<op, args, from_product, index, asks, cookie_jar, other>>

ProductsFetch ==
    /\ op = "get_subscription_products_with_gamekeys"
    /\ pc = "fetch"
    /\ Len(requests) < MaxRequests
    /\ \E reply \in ProductReplies : ProductsReceive(reply)
    /\ UNCHANGED backend

\* the repertoire of the unchanged backend: two pages with a cursor, a page
\* without, and not found
StableProductReplies ==
    {Response(404, NotJson),
     Response(200, [t |-> "dict", products |-> <<Obj("a")>>]),
     Response(200, [t |-> "dict", products |-> <<Obj("a"), Obj("b")>>, cursor |-> "x"]),
     Response(200, [t |-> "dict", products |-> <<Obj("b")>>, cursor |-> "y"])}

\* the same step against a backend that answers a request always the same
ProductsFetchStable ==
    /\ op = "get_subscription_products_with_gamekeys"
    /\ pc = "fetch"
    /\ Len(requests) < MaxSharedRequests
    /\ \E reply \in Served(ProductsRequest, StableProductReplies) :
            /\ ProductsReceive(reply)
            /\ backend' = Remember(ProductsRequest, reply)

(* get_previous_subscription_months *)

Months == {"feb", "jan"}
Month(machine_name) == [t |-> "dict", machine_name |-> machine_name]
MonthLists == SeqsUpTo({Month(m) : m \in Months}, MaxPageLen)
MonthPages == {[t |-> "dict", previous_months |-> m] : m \in MonthLists}
MonthReplies ==
    PageReplies(MonthPages \cup {NotJson, ErrorDict},
                {NotJson, [t |-> "dict", previous_months |-> <<Month("feb")>>]})
FromProducts == {"mar"}

\* model.subscription.ChoiceMonth: the typed record around a previous month
ChoiceMonth(prev_month) == [t |-> "ChoiceMonth", data |-> prev_month]

\* a slip: the machine_name of the first entry in place of the last
months_next_from_first(data) == data.previous_months[1].machine_name

\* from_product = prev_month['machine_name'], prev_month being the last entry
\* the for loop went through
months_next_from_product(data) == data.previous_months[Len(data.previous_months)].machine_name

\* the for loop over data['previous_months'] after n entries were yielded, and
\* the assignment to from_product that follows it
months_loop(old_from, data, n, log) ==
    IF n < Len(data.previous_months)
    THEN GenStep("yielded", NoExc, log, <<ChoiceMonth(data.previous_months[n + 1])>>,
                 old_from, data, n + 1)
    ELSE GenStep("fetch", NoExc, log, <<>>, months_next_from_product(data), NoPage, 0)

\* a slip: an empty previous_months does not end the generator, which asks
\* for the same page again
months_fetch_no_end(old_from, reply) ==
    LET r == _request(reply, FALSE)
        res == r.value
    IN  IF r.raised # NoExc THEN GenRaise(r.raised, r.logged, old_from)
        ELSE IF res = None THEN GenRaise(AttributeError, r.logged, old_from)
        ELSE IF res.status = 404 THEN GenReturn(r.logged, old_from)
        ELSE LET h == raise_for_status(res)
                 data == json(res)
                 log == r.logged \o h.logged
             IN  IF h.raised # NoExc THEN GenRaise(h.raised, log, old_from)
                 ELSE IF data.raised # NoExc THEN GenRaise(data.raised, log, old_from)
                 ELSE IF ~HasKey(data.value, "previous_months") THEN GenRaise(KeyError, log, old_from)
                 ELSE IF data.value.previous_months = <<>>
                 THEN GenStep("fetch", NoExc, log, <<>>, old_from, NoPage, 0)
                 ELSE months_loop(old_from, data.value, 0, log)

\* the body of the while loop from the reply to get_subscription_history on
months_fetch(old_from, reply) ==
    LET r == _request(reply, FALSE)
        res == r.value
    IN  IF r.raised # NoExc THEN GenRaise(r.raised, r.logged, old_from)
        ELSE IF res = None THEN GenRaise(AttributeError, r.logged, old_from)
        ELSE IF res.status = 404 THEN GenReturn(r.logged, old_from)
        ELSE LET h == raise_for_status(res)
                 data == json(res)
                 log == r.logged \o h.logged
             IN  IF h.raised # NoExc THEN GenRaise(h.raised, log, old_from)
                 ELSE IF data.raised # NoExc THEN GenRaise(data.raised, log, old_from)
                 ELSE IF ~HasKey(data.value, "previous_months") THEN GenRaise(KeyError, log, old_from)
                 ELSE IF data.value.previous_months = <<>> THEN GenReturn(log, old_from)
                 ELSE months_loop(old_from, data.value, 0, log)

MonthsCreate ==
    /\ CanCall
    /\ \E fp \in FromProducts :
            /\ op' = "get_previous_subscription_months"
            /\ args' = [from_product |-> fp]
            /\ pc' = "created"
            /\ from_product' = fp
            /\ UNCHANGED <<requests, replies, logged, outcome, yielded, cursor, index,
                           page, pos, asks, shared>>

MonthsAdvance ==
    /\ op = "get_previous_subscription_months"
    /\ \/ /\ pc = "created"
          /\ pc' = "fetch"
          /\ UNCHANGED <<logged, yielded, page, pos, outcome, from_product>>
       \/ /\ pc = "yielded"
          /\ LET s == months_loop(from_product, page, pos, <<>>)
             IN  Take(s) /\ from_product' = s.token
    /\ asks' = asks + 1
    /\ UNCHANGED <<op, args, requests, replies, cursor, index, shared>>

MonthsRequest == Request("GET", _SUBSCRIPTION_HISTORY, from_product)

MonthsReceive(reply) ==
    LET s == months_fetch(from_product, reply)
    IN  /\ requests' = Append(requests, MonthsRequest)
        /\ replies' = Append(replies, reply)
        /\ Take(s)
        /\ from_product' = s.token
        /\ UNCHANGED <<op, args, cursor, index, asks, cookie_jar, other>>

MonthsFetch ==
    /\ op = "get_previous_subscription_months"
    /\ pc = "fetch"
    /\ Len(requests) < MaxRequests
    /\ \E reply \in MonthReplies : MonthsReceive(reply)
    /\ UNCHANGED backend

\* the repertoire of the unchanged backend: two pages, the empty page and
\* not found
StableMonthReplies ==
    {Response(404, NotJson),
     Response(200, [t |-> "dict", previous_months |-> <<Month("feb"), Month("jan")>>]),
     Response(200, [t |-> "dict", previous_months |-> <<Month("feb")>>]),
     Response(200, [t |-> "dict", previous_months |-> <<>>])}

MonthsFetchStable ==
    /\ op = "get_previous_subscription_months"
    /\ pc = "fetch"
    /\ Len(requests) < MaxSharedRequests
    /\ \E reply \in Served(MonthsRequest, StableMonthReplies) :
            /\ MonthsReceive(reply)
            /\ backend' = Remember(MonthsRequest, reply)

(* get_trove_details *)

TroveChunks == {Arr(c) : c \in SeqsUpTo({Obj(i) : i \in Items}, MaxPageLen)}
TroveReplies ==
    {ConnectionFailed, Response(404, NotJson), Response(500, NotJson)}
        \cup {Response(200, b) : b \in TroveChunks \cup {NotJson, ErrorDict}}

_get_trove_details(reply) == request_json(reply)

\* one chunk fetched on its own
GetTroveChunk ==
    /\ CanCall
    /\ \E chunk_index \in 0..MaxFromChunk, reply \in TroveReplies :
            Call("_get_trove_details", [chunk_index |-> chunk_index],
                 _request_calls(Request("get", _TROVE_CHUNK_URL, chunk_index), reply), <<reply>>,
                 _get_trove_details(reply))

\* a slip: the index is not advanced
trove_next_index_stuck(i) == i

\* index += 1
trove_next_index(i) == i + 1

\* what get_trove_details yields for a chunk that is a list and not empty
trove_yield(chunk_details) == <<chunk_details>>

\* a slip: the type of the chunk is not checked, only its emptiness
trove_fetch_unchecked(i, reply) ==
    LET chunk_details == _get_trove_details(reply)
    IN  IF chunk_details.raised # NoExc THEN GenRaise(chunk_details.raised, chunk_details.logged, i)
        ELSE IF chunk_details.value.t = "list" /\ Len(chunk_details.value.elems) = 0
        THEN GenReturn(chunk_details.logged, i)
        ELSE GenStep("yielded", NoExc, chunk_details.logged, trove_yield(chunk_details.value),
                     i, chunk_details.value, 1)

\* the body of the while loop from the reply to the chunk request on
trove_fetch(i, reply) ==
    LET chunk_details == _get_trove_details(reply)
    IN  IF chunk_details.raised # NoExc THEN GenRaise(chunk_details.raised, chunk_details.logged, i)
        ELSE IF chunk_details.value.t # "list"
        THEN GenRaise(UnknownBackendResponse, chunk_details.logged, i)
        ELSE IF Len(chunk_details.value.elems) = 0 THEN GenReturn(chunk_details.logged, i)
        ELSE GenStep("yielded", NoExc, chunk_details.logged, trove_yield(chunk_details.value),
                     i, chunk_details.value, 1)

TroveCreate ==
    /\ CanCall
    /\ \E from_chunk \in 0..MaxFromChunk :
            Create("get_trove_details", [from_chunk |-> from_chunk])

\* the consumer asks for the next chunk: the body starts (index = from_chunk),
\* or resumes after the yield (index += 1)
TroveAdvance ==
    /\ op = "get_trove_details"
    /\ \/ /\ pc = "created"
          /\ index' = args.from_chunk
       \/ /\ pc = "yielded"
          /\ index' = trove_next_index(index)
    /\ pc' = "fetch"
    /\ page' = NoPage
    /\ pos' = 0
    /\ asks' = asks + 1
    /\ UNCHANGED <<op, args, requests, replies, logged, outcome, yielded, cursor,
                   from_product, shared>>

TroveRequest == Request("get", _TROVE_CHUNK_URL, index)

TroveReceive(reply) ==
    LET s == trove_fetch(index, reply)
    IN  /\ requests' = Append(requests, TroveRequest)
        /\ replies' = Append(replies, reply)
        /\ Take(s)
        /\ UNCHANGED <<op, args, cursor, from_product, index, asks, cookie_jar, other>>

TroveFetch ==
    /\ op = "get_trove_details"
    /\ pc = "fetch"
    /\ Len(requests) < MaxRequests
    /\ \E reply \in TroveReplies : TroveReceive(reply)
    /\ UNCHANGED backend

\* the repertoire of the unchanged backend: a chunk, the empty chunk, and no
\* connection
StableTroveReplies ==
    {ConnectionFailed,
     Response(200, Arr(<<Obj("a"), Obj("b")>>)),
     Response(200, Arr(<<>>))}

TroveFetchStable ==
    /\ op = "get_trove_details"
    /\ pc = "fetch"
    /\ Len(requests) < MaxSharedRequests
    /\ \E reply \in Served(TroveRequest, StableTroveReplies) :
            /\ TroveReceive(reply)
            /\ backend' = Remember(TroveRequest, reply)

(* Two calls on one client *)

\* the call that runs: its frame
Frame ==
    [op |-> op, args |-> args, pc |-> pc, requests |-> requests,
     replies |-> replies, logged |-> logged, outcome |-> outcome, yielded |-> yielded,
     cursor |-> cursor, from_product |-> from_product, index |-> index, page |-> page,
     pos |-> pos, asks |-> asks]

\* a slip: cursor, from_product and index are attributes of the client, and
\* the call that is resumed finds them as the other call left them
resumed_on_client(suspended, running) ==
    [suspended EXCEPT !.cursor = running.cursor,
                      !.from_product = running.from_product,
                      !.index = running.index]

\* the frame a suspended call is resumed with: cursor, from_product and index
\* are locals of the generator, so it finds them as it left them
resumed(suspended, running) == suspended

\* the event loop suspends the call that runs and resumes the other one
Switch ==
    /\ other # Frame
    /\ LET f == resumed(other, Frame)
       IN  /\ op' = f.op
           /\ args' = f.args
           /\ pc' = f.pc
           /\ requests' = f.requests
           /\ replies' = f.replies
           /\ logged' = f.logged
           /\ outcome' = f.outcome
           /\ yielded' = f.yielded
           /\ cursor' = f.cursor
           /\ from_product' = f.from_product
           /\ index' = f.index
           /\ page' = f.page
           /\ pos' = f.pos
           /\ asks' = f.asks
    /\ other' = Frame
    /\ UNCHANGED <<cookie_jar, backend>>

\* authentication as it is meant to happen: once
AuthenticateOnce ==
    /\ cookie_jar = EmptyJar
    /\ Authenticate
    /\ args'.auth_cookie.value = <<UserB64>>

\* the caller takes the user id
CollectUserId ==
    /\ op = "authenticate"
    /\ Collect

----------------------------------------------------------------------------
(* Specifications *)

NextCalls ==
    \/ IsSessionValid
    \/ GetGamekeys
    \/ GetOrderDetails
    \/ SignDownload
    \/ GetWebpackData
    \/ GetSubscriptionPlan
    \/ GetTroveChunk
    \/ Collect

NextSession ==
    \/ Authenticate
    \/ IsAuthenticated
    \/ IsSessionValid
    \/ Collect

NextDownload ==
    \/ SignUrlSubproduct
    \/ SignUrlTrove
    \/ Collect

NextProducts ==
    \/ ProductsCreate
    \/ ProductsAdvance
    \/ ProductsFetch
    \/ Collect

NextMonths ==
    \/ MonthsCreate
    \/ MonthsAdvance
    \/ MonthsFetch
    \/ Collect

NextTrove ==
    \/ TroveCreate
    \/ TroveAdvance
    \/ TroveFetch
    \/ Collect

NextTwoCalls ==
    \/ AuthenticateOnce
    \/ CollectUserId
    \/ ProductsCreate
    \/ ProductsAdvance
    \/ ProductsFetchStable
    \/ MonthsCreate
    \/ MonthsAdvance
    \/ MonthsFetchStable
    \/ TroveCreate
    \/ TroveAdvance
    \/ TroveFetchStable
    \/ Switch

\* a consumer that takes every item of a generator, against a backend that
\* does not change
NextConsumed ==
    \/ ProductsCreate
    \/ ProductsAdvance
    \/ ProductsFetchStable
    \/ MonthsCreate
    \/ MonthsAdvance
    \/ MonthsFetchStable
    \/ TroveCreate
    \/ TroveAdvance
    \/ TroveFetchStable

Next == NextCalls \/ NextDownload \/ NextProducts \/ NextMonths \/ NextTrove

\* every method of the client
Spec == Init /\ [][Next]_vars
\* the session manager, the resource fetchers and the scraper
SpecCalls == Init /\ [][NextCalls]_vars
\* authentication and the session manager
SpecSession == Init /\ [][NextSession]_vars
\* the download workflow
SpecDownload == Init /\ [][NextDownload]_vars
\* one generator each
SpecProducts == Init /\ [][NextProducts]_vars
SpecMonths == Init /\ [][NextMonths]_vars
SpecTrove == Init /\ [][NextTrove]_vars
\* the two generators that check the status of the response
SpecStatusChecked == Init /\ [][NextProducts \/ NextMonths]_vars
\* two calls of the generators, interleaved, against a backend that does not change
SpecTwoCalls == Init /\ [][NextTwoCalls]_vars
\* a generator whose consumer goes on asking and whose requests are answered
SpecConsumed ==
    /\ Init
    /\ [][NextConsumed]_vars
    /\ WF_vars(ProductsAdvance \/ MonthsAdvance \/ TroveAdvance)
    /\ WF_vars(ProductsFetchStable \/ MonthsFetchStable \/ TroveFetchStable)
\* the three generators
SpecGenerators == Init /\ [][NextProducts \/ NextMonths \/ NextTrove]_vars

----------------------------------------------------------------------------
(* Properties *)

\* the HTTP call behind a reply failed: no connection, or a status the
\* session raises for
CallFailed(reply) == reply = ConnectionFailed \/ reply.status >= 400
HasStatus(reply, status) == reply # ConnectionFailed /\ reply.status = status

Fetchers == {"get_gamekeys", "get_order_details", "sign_download", "_get_webpack_data"}
SignUrls == {"sign_url_subproduct", "sign_url_trove"}
Products == "get_subscription_products_with_gamekeys"
PreviousMonths == "get_previous_subscription_months"
TroveDetails == "get_trove_details"

\* C1: _is_session_valid returns false exactly when the probe fails with HTTP
\* 401, raises when the probe fails in any other way, and returns true only
\* when the probe did not fail.
C1_ProbeVerdict ==
    (op = "_is_session_valid" /\ pc = "done") =>
        /\ HasStatus(replies[1], 401) <=> (outcome.kind = "returned" /\ outcome.val = FALSE)
        /\ (CallFailed(replies[1]) /\ ~HasStatus(replies[1], 401)) => outcome.kind = "raised"
        /\ (outcome.kind = "returned" /\ outcome.val = TRUE) => ~CallFailed(replies[1])

\* C2: when the HTTP call of a fetcher or of the scraper fails, the wrapper
\* logs the error and raises it again: the caller gets a backend failure.
C2_FailureReraised ==
    (op \in Fetchers /\ pc = "done" /\ CallFailed(replies[1])) =>
        /\ logged # <<>>
        /\ outcome.kind = "raised"
        /\ outcome.exc.type \in BackendFailures

\* a successful page of subscription products: it has products and a cursor
ProductPage(reply) ==
    /\ HasStatus(reply, 200)
    /\ reply.body.t = "dict"
    /\ HasKey(reply.body, "products")
    /\ HasKey(reply.body, "cursor")

\* the products of the first k replies, in order
ProductsOf(k) == Flatten([n \in 1..k |-> replies[n].body.products])

IsPrefix(s, t) == Len(s) <= Len(t) /\ s = SubSeq(t, 1, Len(s))

\* C3: the first request carries the empty cursor, request n+1 the cursor of
\* response n; after successful pages P1..Pk and a 404 the generator has
\* yielded exactly the products of P1..Pk in order and has ended without
\* error, and before the 404 it has yielded a prefix of them.
C3_CursorPagination ==
    op = Products =>
        /\ requests # <<>> => requests[1].arg = ""
        /\ \A n \in 2..Len(requests) :
                /\ replies[n - 1] # ConnectionFailed
                /\ HasKey(replies[n - 1].body, "cursor")
                /\ requests[n].arg = replies[n - 1].body.cursor
        /\ (\A n \in 1..Len(replies) : ProductPage(replies[n])) =>
                /\ outcome.kind = "pending"
                /\ IsPrefix(yielded, ProductsOf(Len(replies)))
        /\ (/\ replies # <<>>
            /\ \A n \in 1..(Len(replies) - 1) : ProductPage(replies[n])
            /\ HasStatus(replies[Len(replies)], 404)) =>
                /\ pc = "done"
                /\ outcome.kind = "returned"
                /\ yielded = ProductsOf(Len(replies) - 1)

\* pages [a, b] with cursor x, [b] with cursor y, then 404: a, b, b was yielded
C3_Witness ==
    /\ op = Products
    /\ pc = "done"
    /\ Len(replies) = 3
    /\ ProductPage(replies[1]) /\ replies[1].body.cursor = "x"
    /\ replies[1].body.products = <<Obj("a"), Obj("b")>>
    /\ ProductPage(replies[2]) /\ replies[2].body.cursor = "y"
    /\ replies[2].body.products = <<Obj("b")>>
    /\ HasStatus(replies[3], 404)
    /\ yielded = <<Obj("a"), Obj("b"), Obj("b")>>
    /\ requests[2].arg = "x" /\ requests[3].arg = "y"

\* the entries a generator takes from the body of a reply
EntriesOf(reply) ==
    IF reply = ConnectionFailed \/ reply.body.t # "dict" THEN <<>>
    ELSE IF HasKey(reply.body, "products") THEN reply.body.products
    ELSE IF HasKey(reply.body, "previous_months") THEN reply.body.previous_months
    ELSE <<>>

\* C4: in the two generators that check the status, a response with a status
\* that is neither a success nor 404 ends the generator with an error: nothing
\* of its body is yielded and no request follows it.
C4_ErrorStatusReported ==
    op \in {Products, PreviousMonths} =>
        \A n \in 1..Len(replies) :
            (replies[n] # ConnectionFailed /\ replies[n].status >= 400
                /\ replies[n].status # 404) =>
                /\ Len(requests) = n
                /\ pc = "done"
                /\ outcome.kind = "raised"
                /\ Len(yielded) <= Len(Flatten([m \in 1..(n - 1) |-> EntriesOf(replies[m])]))

\* C5, as claimed: a download whose web link is missing or the empty string
\* makes sign_url_subproduct and sign_url_trove fail before any request.
C5_EmptyWebLinkFailsFast ==
    (op \in SignUrls /\ pc = "done"
        /\ args.download.web \in {None, Str(<<>>)}) =>
        /\ outcome.kind = "raised"
        /\ outcome.exc = RuntimeError
        /\ requests = <<>>

\* C5, amended: a download whose web link is missing (None) makes
\* sign_url_subproduct and sign_url_trove fail with a RuntimeError before any
\* request, and no other download fails with that error.
C5_MissingWebLinkFailsFast ==
    (op \in SignUrls /\ pc = "done") =>
        /\ args.download.web = None =>
                /\ outcome.kind = "raised"
                /\ outcome.exc = RuntimeError
                /\ requests = <<>>
        /\ args.download.web # None => (outcome.exc # RuntimeError /\ requests # <<>>)

C5_Witness ==
    /\ op = "sign_url_subproduct"
    /\ pc = "done"
    /\ args.download.web = None
    /\ outcome.exc = RuntimeError
    /\ requests = <<>>

\* the sign call succeeded: a response the session does not raise for, with a
\* JSON body
SignSucceeded(reply) == ~CallFailed(reply) /\ reply.body.t # "notjson"

\* C6: when the sign call succeeds, sign_url_subproduct and sign_url_trove
\* return the map of signed URLs of the sign response, whatever the reply to
\* the redeem request.
C6_RedeemFailureSuppressed ==
    (op \in SignUrls /\ pc = "done" /\ replies # <<>> /\ SignSucceeded(replies[1])) =>
        /\ Len(requests) = 2
        /\ outcome.kind = "returned"
        /\ outcome.val = replies[1].body

\* the redeem request is answered with a body that is not the success marker
C6_Witness ==
    /\ op = "sign_url_trove"
    /\ pc = "done"
    /\ Len(replies) = 2
    /\ SignSucceeded(replies[1])
    /\ HasStatus(replies[2], 200)
    /\ replies[2].body.content # RedeemSuccess
    /\ outcome.kind = "returned"
    /\ outcome.val = replies[1].body
    /\ logged # <<>>

\* a trove chunk that is a list and not empty
TroveChunk(reply) ==
    HasStatus(reply, 200) /\ reply.body.t = "list" /\ reply.body.elems # <<>>
EmptyChunk(reply) ==
    HasStatus(reply, 200) /\ reply.body.t = "list" /\ reply.body.elems = <<>>

\* the chunk indices are requested in order from from_chunk on, and no request
\* follows an empty chunk, which ends the generator without error
TroveRequests ==
    /\ \A n \in 1..Len(requests) : requests[n].arg = args.from_chunk + n - 1
    /\ \A n \in 1..Len(replies) :
            EmptyChunk(replies[n]) =>
                (Len(requests) = n /\ pc = "done" /\ outcome.kind = "returned")

\* C7, as claimed: get_trove_details requests the chunks in order and yields
\* the items of each chunk that is not empty, one by one.
C7_TroveYieldsItems ==
    op = TroveDetails =>
        /\ TroveRequests
        /\ (\A n \in 1..Len(replies) : TroveChunk(replies[n])) =>
                yielded = Flatten([n \in 1..Len(replies) |-> replies[n].body.elems])

\* C7, amended: get_trove_details requests the chunks in order from
\* from_chunk on and yields each chunk that is not empty as one value, the
\* list itself; it ends without error at the first empty list and requests
\* nothing after it.
C7_TroveYieldsChunks ==
    op = TroveDetails =>
        /\ TroveRequests
        /\ (\A n \in 1..Len(replies) : TroveChunk(replies[n])) =>
                /\ outcome.kind = "pending"
                /\ yielded = [n \in 1..Len(replies) |-> replies[n].body]
        /\ (/\ replies # <<>>
            /\ \A n \in 1..(Len(replies) - 1) : TroveChunk(replies[n])
            /\ EmptyChunk(replies[Len(replies)])) =>
                yielded = [n \in 1..(Len(replies) - 1) |-> replies[n].body]

\* chunk 1 is [a, b] and chunk 2 is []: the list [a, b] was yielded
C7_Witness ==
    /\ op = TroveDetails
    /\ pc = "done"
    /\ args.from_chunk = 1
    /\ Len(replies) = 2
    /\ TroveChunk(replies[1])
    /\ replies[1].body.elems = <<Obj("a"), Obj("b")>>
    /\ EmptyChunk(replies[2])
    /\ yielded = <<Arr(<<Obj("a"), Obj("b")>>)>>
    /\ requests[1].arg = 1 /\ requests[2].arg = 2
    /\ outcome.kind = "returned"

\* a successful page of previous months that is not empty
MonthPage(reply) ==
    /\ HasStatus(reply, 200)
    /\ reply.body.t = "dict"
    /\ HasKey(reply.body, "previous_months")
    /\ reply.body.previous_months # <<>>
LastPage(reply) ==
    \/ HasStatus(reply, 404)
    \/ /\ HasStatus(reply, 200)
       /\ reply.body.t = "dict"
       /\ HasKey(reply.body, "previous_months")
       /\ reply.body.previous_months = <<>>

\* the previous months of the first k replies as ChoiceMonth records, in order
MonthsOf(k) ==
    LET entries == Flatten([n \in 1..k |-> replies[n].body.previous_months])
    IN  [i \in 1..Len(entries) |-> ChoiceMonth(entries[i])]

\* C8: each request asks for the months before the current from_product, the
\* argument at first and then the machine_name of the last entry of the page
\* before; every entry of a page is yielded in order; a 404 or an empty
\* previous_months ends the generator without error.
C8_ContinuationPagination ==
    op = PreviousMonths =>
        /\ requests # <<>> => requests[1].arg = args.from_product
        /\ \A n \in 2..Len(requests) :
                /\ replies[n - 1] # ConnectionFailed
                /\ HasKey(replies[n - 1].body, "previous_months")
                /\ LET months == replies[n - 1].body.previous_months
                   IN  months # <<>> /\ requests[n].arg = months[Len(months)].machine_name
        /\ (\A n \in 1..Len(replies) : MonthPage(replies[n])) =>
                /\ outcome.kind = "pending"
                /\ IsPrefix(yielded, MonthsOf(Len(replies)))
        /\ (/\ replies # <<>>
            /\ \A n \in 1..(Len(replies) - 1) : MonthPage(replies[n])
            /\ LastPage(replies[Len(replies)])) =>
                /\ pc = "done"
                /\ outcome.kind = "returned"
                /\ yielded = MonthsOf(Len(replies) - 1)

\* a page [feb, jan], then an empty page asked for from jan
C8_Witness ==
    /\ op = PreviousMonths
    /\ pc = "done"
    /\ Len(replies) = 2
    /\ MonthPage(replies[1])
    /\ replies[1].body.previous_months = <<Month("feb"), Month("jan")>>
    /\ HasStatus(replies[2], 200) /\ LastPage(replies[2])
    /\ requests[1].arg = "mar" /\ requests[2].arg = "jan"
    /\ yielded = <<ChoiceMonth(Month("feb")), ChoiceMonth(Month("jan"))>>
    /\ outcome.kind = "returned"

\* the replies are successful pages of products and the last has no cursor
LastPageHasNoCursor ==
    /\ op = Products
    /\ replies # <<>>
    /\ \A n \in 1..(Len(replies) - 1) : ProductPage(replies[n])
    /\ HasStatus(replies[Len(replies)], 200)
    /\ replies[Len(replies)].body.t = "dict"
    /\ HasKey(replies[Len(replies)].body, "products")
    /\ ~HasKey(replies[Len(replies)].body, "cursor")

\* C9, as claimed: a successful page without a cursor ends the sequence: its
\* products are yielded and the generator ends without raising.
C9_NoCursorEndsSequence ==
    LastPageHasNoCursor =>
        /\ outcome.kind # "raised"
        /\ pc = "done" => (outcome.kind = "returned" /\ yielded = ProductsOf(Len(replies)))

\* C9, amended: after a successful page without a cursor the generator yields
\* the products of that page, requests nothing more, and ends by raising
\* KeyError when the consumer asks for the product after them.
C9_NoCursorRaisesKeyError ==
    LastPageHasNoCursor =>
        /\ pc \in {"yielded", "done"}
        /\ IsPrefix(yielded, ProductsOf(Len(replies)))
        /\ pc = "yielded" => outcome.kind = "pending"
        /\ pc = "done" =>
                /\ outcome.kind = "raised"
                /\ outcome.exc = KeyError
                /\ yielded = ProductsOf(Len(replies))

C9_Witness ==
    /\ LastPageHasNoCursor
    /\ pc = "done"
    /\ Len(replies) = 2
    /\ replies[2].body.products = <<Obj("a"), Obj("b")>>
    /\ outcome.exc = KeyError
    /\ yielded = ProductsOf(2)

\* the marker <script id="{webpack_id}" type="application/json"> occurs in txt
\* right before position i + 1
MarkerEndsAt(txt, webpack_id, i) ==
    /\ i >= 3
    /\ i <= Len(txt)
    /\ txt[i - 2] = ScriptOpen /\ txt[i - 1] = webpack_id /\ txt[i] = ScriptType
HasMarker(txt, webpack_id) == \E i \in 1..Len(txt) : MarkerEndsAt(txt, webpack_id, i)

\* the text after the first marker starts, white space aside, with a JSON value
JsonFollowsMarker(txt, webpack_id) ==
    \E i \in 1..Len(txt) :
        /\ MarkerEndsAt(txt, webpack_id, i)
        /\ \A j \in 1..(i - 1) : ~MarkerEndsAt(txt, webpack_id, j)
        /\ \E k \in (i + 1)..Len(txt) :
                /\ txt[k] \in Digits \cup JsonObjects
                /\ \A m \in (i + 1)..(k - 1) : txt[m] \in Whitespace

\* C10: _get_webpack_data raises UnknownBackendResponse for every page text
\* without the marker, and for every page text where no JSON value follows
\* the marker.
C10_MarkerRequired ==
    (op = "_get_webpack_data" /\ pc = "done" /\ ~CallFailed(replies[1])) =>
        LET txt == replies[1].body.text
        IN  /\ ~HasMarker(txt, args.webpack_id) =>
                    (outcome.kind = "raised" /\ outcome.exc = UnknownBackendResponse)
            /\ (HasMarker(txt, args.webpack_id) /\ ~JsonFollowsMarker(txt, args.webpack_id)) =>
                    (outcome.kind = "raised" /\ outcome.exc = UnknownBackendResponse)

----------------------------------------------------------------------------
(* get_trove_details: chunks that are not lists *)

\* the reply decodes to a JSON value that is not an array
NotAList(reply) == HasStatus(reply, 200) /\ reply.body.t \notin {"list", "notjson"}

\* C11: when a chunk decodes to a JSON value that is not an array,
\* get_trove_details ends with UnknownBackendResponse at that chunk, has
\* yielded nothing for it and requests no further chunk; an empty array never
\* ends it with an error.
C11_NonListChunkRejected ==
    (op = TroveDetails) =>
        \A n \in 1..Len(replies) :
            /\ NotAList(replies[n]) =>
                    /\ pc = "done"
                    /\ outcome = Raised(UnknownBackendResponse)
                    /\ Len(requests) = n
                    /\ Len(yielded) = n - 1
                    /\ \A m \in 1..(n - 1) : yielded[m] = replies[m].body
            /\ EmptyChunk(replies[n]) => outcome.kind # "raised"

\* a chunk was yielded, and the next one, an object, ended the generator
C11_Witness ==
    /\ op = TroveDetails
    /\ Len(replies) = 2
    /\ TroveChunk(replies[1])
    /\ NotAList(replies[2])
    /\ outcome = Raised(UnknownBackendResponse)
    /\ Len(yielded) = 1

----------------------------------------------------------------------------
(* One request per fetch *)

OneCallFetchers == Fetchers \cup {"_get_trove_details"}

\* C13: each invocation of get_gamekeys, get_order_details,
\* _get_trove_details, sign_download and _get_webpack_data issues exactly one
\* HTTP request, whether it succeeds or fails; after a failed request the
\* invocation ends with an error and has issued no second request.
C13_OneRequestNoRetry ==
    (op \in OneCallFetchers /\ pc = "done") =>
        /\ Len(requests) = 1
        /\ Len(replies) = 1
        /\ CallFailed(replies[1]) => outcome.kind = "raised"

\* a chunk fetch whose only request failed has ended with an error
C13_Witness ==
    /\ op = "_get_trove_details"
    /\ pc = "done"
    /\ CallFailed(replies[1])
    /\ Len(requests) = 1
    /\ outcome.kind = "raised"

----------------------------------------------------------------------------
(* sign_url_subproduct, sign_url_trove: the order of the two requests *)

IsSign(req) == req.url = <<_AUTHORITY, _DOWNLOAD_SIGN>>
IsRedeem(req) == req.url = <<_AUTHORITY, _HUMBLER_REDEEM_DOWNLOAD>>

\* C15: sign_url_subproduct and sign_url_trove issue the sign request before
\* the redeem request; the redeem request is issued at most once and only
\* after the sign call returned successfully; when the sign call fails the
\* operation fails, no redeem request is issued and no URL map is returned.
C15_SignThenRedeem ==
    (op \in SignUrls /\ pc = "done") =>
        /\ Len(requests) <= 2
        /\ Len(replies) = Len(requests)
        /\ \A n \in 1..Len(requests) :
                /\ IsSign(requests[n]) <=> n = 1
                /\ IsRedeem(requests[n]) <=> n = 2
        /\ Len(requests) = 2 => SignSucceeded(replies[1])
        /\ (requests # <<>> /\ ~SignSucceeded(replies[1])) =>
                /\ Len(requests) = 1
                /\ outcome.kind = "raised"
                /\ outcome.val = None

\* a sign call that failed has ended sign_url_trove after its only request
C15_Witness ==
    /\ op = "sign_url_trove"
    /\ pc = "done"
    /\ Len(requests) = 1
    /\ IsSign(requests[1])
    /\ CallFailed(replies[1])
    /\ outcome.kind = "raised"

----------------------------------------------------------------------------
(* get_subscription_plan: the failures that become None *)

\* what the scrape of the subscriber hub gives for the reply
HubScrape(reply) == _get_webpack_data(HubId, reply)
ScrapeUnknown(reply) == HubScrape(reply).raised = UnknownBackendResponse
PayloadWithoutPlan(reply) ==
    /\ HubScrape(reply).raised = NoExc
    /\ HubScrape(reply).value.t = "dict"
    /\ ~HasKey(HubScrape(reply).value, "userSubscriptionPlan")

\* C20: get_subscription_plan returns None, and raises nothing, exactly when
\* the scrape of the subscriber hub fails with UnknownBackendResponse or the
\* scraped object has no userSubscriptionPlan key; every other failure, a
\* failed HTTP call included, reaches the caller as an error.
C20_TwoFailuresBecomeNone ==
    (op = "get_subscription_plan" /\ pc = "done") =>
        /\ outcome = Returned(None) <=>
                (ScrapeUnknown(replies[1]) \/ PayloadWithoutPlan(replies[1]))
        /\ CallFailed(replies[1]) => outcome.kind = "raised"
        /\ HubScrape(replies[1]).raised \notin {NoExc, UnknownBackendResponse} =>
                outcome = Raised(HubScrape(replies[1]).raised)
        /\ outcome.kind = "returned" /\ outcome.val # None =>
                outcome.val = UserSubscriptionPlan(HubScrape(replies[1]).value.userSubscriptionPlan)

\* the object after the marker has no plan, and None was returned
C20_Witness ==
    /\ op = "get_subscription_plan"
    /\ pc = "done"
    /\ PayloadWithoutPlan(replies[1])
    /\ outcome = Returned(None)

----------------------------------------------------------------------------
(* is_authenticated and the cookie jar *)

\* the cookie authenticate installs for its argument
InstalledValue(auth_cookie) == remove(unicode_escape(auth_cookie.value), Quote)
Installed ==
    /\ HasKey(cookie_jar, args.auth_cookie.name)
    /\ cookie_jar[args.auth_cookie.name] = InstalledValue(args.auth_cookie)

\* C12: is_authenticated is false on a client that never authenticated, true
\* right after an authenticate call that returned, and whenever it is read
\* it is true exactly when the cookie jar holds a cookie, and no request is
\* issued for it.
C12_AuthenticatedIffJarHoldsCookie ==
    /\ (op = "__init__" /\ cookie_jar = EmptyJar) => ~is_authenticated(cookie_jar)
    /\ (op = "authenticate" /\ pc = "done" /\ outcome.kind = "returned") =>
            (Installed /\ is_authenticated(cookie_jar))
    /\ (op = "is_authenticated" /\ pc = "done") =>
            /\ outcome.kind = "returned"
            /\ outcome.val <=> (DOMAIN cookie_jar # {})
            /\ requests = <<>>

\* the property was read as true after an authenticate call that returned 7
\* had installed its cookie
C12_Witness ==
    /\ op = "is_authenticated"
    /\ pc = "done"
    /\ outcome = Returned(TRUE)
    /\ HasKey(cookie_jar, AuthCookieName)
    /\ _decode_user_id(cookie_jar[AuthCookieName]).raised = NoExc

----------------------------------------------------------------------------
(* authenticate: the cookie is installed before the user id is decoded *)

DecodingErrors == {BinasciiError, JSONDecodeError, KeyError}

\* C19: after an authenticate call that fails with a decoding error (bad
\* base64, a payload that is not JSON, no user_id) the cookie jar holds the
\* cookie of the call and is_authenticated is true, though no user id was
\* returned.
C19_CookieInstalledBeforeDecoding ==
    (op = "authenticate" /\ pc = "done" /\ outcome.kind = "raised") =>
        /\ outcome.exc \in DecodingErrors
        /\ outcome.val = None
        /\ Installed
        /\ is_authenticated(cookie_jar)

\* the payload of the cookie has no user_id: the call failed and the jar
\* holds the cookie
C19_Witness ==
    /\ op = "authenticate"
    /\ pc = "done"
    /\ outcome = Raised(KeyError)
    /\ Installed
    /\ cookie_jar[AuthCookieName] = <<EmptyB64>>

----------------------------------------------------------------------------
(* Laziness of the generators *)

Generators == {Products, PreviousMonths, TroveDetails}

\* how many values a generator yields for a reply it goes on after
YieldsFor(reply) ==
    IF reply = ConnectionFailed THEN 0
    ELSE IF reply.body.t = "list" THEN (IF reply.body.elems = <<>> THEN 0 ELSE 1)
    ELSE Len(EntriesOf(reply))

RECURSIVE YieldsForAll(_)
YieldsForAll(reps) ==
    IF reps = <<>> THEN 0 ELSE YieldsFor(Head(reps)) + YieldsForAll(Tail(reps))

\* a request is issued in this step
RequestIssued == Len(requests') > Len(requests)

\* C17: a generator issues a request only while the consumer waits for an
\* item it has asked for and not got, and after every item of the pages
\* before was yielded; a generator that was created and never advanced has
\* issued no request, and none is issued while no item is asked for.
C17_Lazy ==
    /\ [](op \in Generators => (Len(yielded) <= asks /\ (asks = 0 => requests = <<>>)))
    /\ [][RequestIssued =>
            /\ op \in Generators
            /\ Len(requests') = Len(requests) + 1
            /\ asks = Len(yielded) + 1
            /\ asks' = asks
            /\ Len(yielded) = YieldsForAll(replies)]_vars

\* the second page was requested after the two products of the first were
\* yielded and a third was asked for
C17_Witness ==
    /\ op = Products
    /\ Len(requests) = 2
    /\ ProductPage(replies[1])
    /\ Len(replies[1].body.products) = 2
    /\ asks = 3
    /\ Len(yielded) >= 2

----------------------------------------------------------------------------
(* Two runs of one pagination against a backend that does not change *)

\* the two calls are the same paginated fetch with the same starting parameters
SameFetch(f, g) == f.op \in Generators /\ f.op = g.op /\ f.args = g.args

EitherIsPrefix(s, t) == IsPrefix(s, t) \/ IsPrefix(t, s)

\* C14: two runs of the same paginated fetch with the same starting
\* parameters against an unchanged backend issue the same requests and yield
\* the same items: when both have ended they agree on all of it, and before
\* that what one has done is the beginning of what the other has done.
C14_SameRunTwice ==
    SameFetch(Frame, other) =>
        /\ EitherIsPrefix(requests, other.requests)
        /\ EitherIsPrefix(yielded, other.yielded)
        /\ (pc = "done" /\ other.pc = "done") =>
                /\ requests = other.requests
                /\ yielded = other.yielded
                /\ outcome = other.outcome

\* get_subscription_products_with_gamekeys has run to its end twice, over a
\* page of two products and a 404
C14_Witness ==
    /\ SameFetch(Frame, other)
    /\ op = Products
    /\ pc = "done" /\ other.pc = "done"
    /\ Len(requests) = 2 /\ other.requests = requests
    /\ Len(yielded) = 2 /\ other.yielded = yielded

----------------------------------------------------------------------------
(* Two generators on one client *)

\* the run of a generator on its own that is consumed to its end, against
\* the backend as far as it has answered: the steps of the generator from its
\* first request on
RequestFor(name, token) ==
    CASE name = Products -> Request("GET", _SUBSCRIPTION_PRODUCTS, token)
      [] name = PreviousMonths -> Request("GET", _SUBSCRIPTION_HISTORY, token)
      [] name = TroveDetails -> Request("get", _TROVE_CHUNK_URL, token)

FetchStep(name, token, reply) ==
    CASE name = Products -> products_fetch(token, reply)
      [] name = PreviousMonths -> months_fetch(token, reply)
      [] name = TroveDetails -> trove_fetch(token, reply)

ResumeStep(name, s) ==
    CASE name = Products -> products_loop(s.token, s.page, s.pos, <<>>)
      [] name = PreviousMonths -> months_loop(s.token, s.page, s.pos, <<>>)
      [] name = TroveDetails ->
            GenStep("fetch", NoExc, <<>>, <<>>, trove_next_index(s.token), NoPage, 0)

FirstToken(name, a) ==
    CASE name = Products -> ""
      [] name = PreviousMonths -> a.from_product
      [] name = TroveDetails -> a.from_chunk

\* the consumer asks again after every item until the generator requests a
\* page or ends
RECURSIVE Drain(_, _, _)
Drain(name, s, out) ==
    IF s.pc = "yielded" THEN Drain(name, ResumeStep(name, s), out \o s.yielded)
    ELSE [step |-> s, yielded |-> out \o s.yielded]

RECURSIVE Alone(_, _, _, _, _)
Alone(name, token, reqs, out, k) ==
    LET req == RequestFor(name, token)
    IN  IF k = 0 \/ ~Answered(req)
        THEN [requests |-> reqs, yielded |-> out, ended |-> FALSE, raised |-> NoExc]
        ELSE LET d == Drain(name, FetchStep(name, token, Answer(req)), <<>>)
             IN  IF d.step.pc = "done"
                 THEN [requests |-> Append(reqs, req), yielded |-> out \o d.yielded,
                       ended |-> TRUE, raised |-> d.step.raised]
                 ELSE Alone(name, d.step.token, Append(reqs, req), out \o d.yielded, k - 1)

\* the call f has done what the run on its own does, as far as f has got
RunsAsAlone(f) ==
    f.op \in Generators =>
        LET a == Alone(f.op, FirstToken(f.op, f.args), <<>>, <<>>, MaxSharedRequests)
        IN  /\ IsPrefix(f.requests, a.requests)
            /\ IsPrefix(f.yielded, a.yielded)
            /\ f.pc = "done" =>
                    /\ a.ended
                    /\ f.requests = a.requests
                    /\ f.yielded = a.yielded
                    /\ f.outcome = IF a.raised = NoExc THEN Returned(None) ELSE Raised(a.raised)

\* C16: the cookie jar is written by authenticate only, and whatever the
\* interleaving of the steps of two generators on one client, and wherever one
\* of them is left, each issues the requests and yields the items of its run
\* on its own against the same backend.
C16_GeneratorsIndependent ==
    /\ [](RunsAsAlone(Frame) /\ RunsAsAlone(other))
    /\ [][cookie_jar' # cookie_jar => (op' = "authenticate" /\ pc' = "done")]_vars

\* a generator of products has ended after two requests while a generator of
\* trove chunks on the same client is left at its first chunk
C16_Witness ==
    /\ op = Products
    /\ pc = "done"
    /\ Len(requests) = 2
    /\ Len(yielded) = 2
    /\ other.op = TroveDetails
    /\ other.pc = "yielded"
    /\ Len(other.requests) = 1
    /\ cookie_jar # EmptyJar

----------------------------------------------------------------------------
(* Termination of the generators *)

\* a successful page that is not empty, for the generator that runs
FullPage(reply) ==
    CASE op = Products -> ProductPage(reply) /\ reply.body.products # <<>>
      [] op = PreviousMonths -> MonthPage(reply)
      [] op = TroveDetails -> TroveChunk(reply)

\* the end-of-data signal of the generator that runs
EndOfData(reply) ==
    CASE op = Products -> HasStatus(reply, 404)
      [] op = PreviousMonths -> LastPage(reply)
      [] op = TroveDetails -> EmptyChunk(reply)

\* the replies so far are k full pages and then the end-of-data signal
PagesThenEnd ==
    /\ op \in Generators
    /\ replies # <<>>
    /\ \A n \in 1..(Len(replies) - 1) : FullPage(replies[n])
    /\ EndOfData(replies[Len(replies)])

\* C18: a generator that has got k full pages and then its end-of-data signal
\* has ended without error after exactly k+1 requests, and a generator whose
\* consumer goes on asking ends, or goes on to the largest number of requests
\* of the model, which it does only while no reply is an end-of-data signal.
C18_EndsWithServerData ==
    /\ [](PagesThenEnd =>
            (pc = "done" /\ outcome = Returned(None) /\ Len(requests) = Len(replies)))
    /\ [](op \in Generators /\ pc # "done" =>
            \A n \in 1..Len(replies) : ~EndOfData(replies[n]))
    /\ (op \in Generators) ~> (pc = "done" \/ Len(requests) = MaxSharedRequests)

\* two pages of previous months and then an empty page: the generator has
\* ended after three requests
C18_Witness ==
    /\ op = PreviousMonths
    /\ Len(replies) = 3
    /\ PagesThenEnd
    /\ HasStatus(replies[3], 200)
    /\ pc = "done"
    /\ Len(requests) = 3

====
